---- MODULE Spec2Model ----
(***************************************************************************)
(* A model of two wrappers of pdfium-render:                               *)
(*   - PdfSignatures / PdfSignaturesIterator   (src/src/signatures.rs)     *)
(*   - PdfPageLinkAnnotation                   (src/src/page_annotation_link.rs) *)
(* together with the part of the native layer (Pdfium, reached through     *)
(* PdfiumLibraryBindings) that they call.  Every wrapper operation records *)
(* in `res` what it was called with, what the native layer answered, the   *)
(* native calls it issued in order, and what it returned.                  *)
(***************************************************************************)
EXTENDS Integers, Sequences, FiniteSets, TLC

\* ------------------------------------------------------------------ bounds

\* Native collections hold 0..MaxCount signatures.
MaxCount == 3

\* ------------------------------------------------------- program constants

\* PdfSignatureIndex = u16: values 0 .. U16Modulus - 1.
U16Modulus == 65536

\* A null handle (handle.is_null()).
NULL == 0

\* What FPDFAnnot_GetLink can return: null, or the handle of the link.
LinkHandles == {NULL, NULL + 1}

\* ------------------------------------------------------------ native layer

\* The causes the native last-error query can report; "None" is "no error".
PdfiumInternalError == {"Unknown", "FormatError"}
LastErrors == {"None"} \cup PdfiumInternalError

\* The counts FPDF_GetSignatureCount (a C int) reports: -1 is its error
\* return, U16Modulus and above do not fit PdfSignatureIndex.
CountValues == {-1} \cup (0 .. MaxCount) \cup {U16Modulus, U16Modulus + 1}

\* The indices callers pass to get(): around the counts, and the largest u16.
Indices == (0 .. MaxCount + 1) \cup {U16Modulus - 1}

VARIABLES
    count,       \* native: the signature count the document reports
    nullAt,      \* native: the indices whose fetch returns a null handle
                 \* (at most one element fails to fetch)
    lastError,   \* native: the process-wide last-error signal
    next_index,  \* PdfSignaturesIterator.next_index
    pc,          \* as_range_inclusive: "idle", or "sub" after is_empty()
    res          \* the last wrapper operation, as the caller saw it

vars == <<count, nullAt, lastError, next_index, pc, res>>

\* The native layer as the bindings see it at one instant.
Native == [count |-> count, nullAt |-> nullAt, lastError |-> lastError]

\* Count call: (container_handle) -> integer_count.
FPDF_GetSignatureCount(nat) == nat.count

\* Indexed-fetch call: (container_handle, index) -> element_handle_or_null.
\* Element i of a collection of n elements has handle i + 1.
FPDF_GetSignatureObject(nat, i) ==
    IF i >= 0 /\ i < nat.count /\ i \notin nat.nullAt THEN i + 1 ELSE NULL

\* Last-error query: () -> optional_error_code, a snapshot read.
get_pdfium_last_error(nat) == nat.lastError

\* --------------------------------------------------------------- conversions

\* `x as u16` (PdfSignatureIndex): keeps the low 16 bits.
AsU16(x) == x % U16Modulus

\* `index as c_int`, from a u16: the zero-extension of 16 bits to 32, which
\* every value 0 .. U16Modulus - 1 survives unchanged.
AsCInt(x) == x

\* ------------------------------------------------------------------ results

\* What an operation leaves in `res`; the fields an operation does not use
\* keep these values.
NoRes ==
    [op |-> "none", index |-> 0, count |-> 0, count2 |-> 0, len |-> 0,
     handle |-> NULL, nativeOk |-> FALSE, nativeErr |-> "None",
     kind |-> "none", err |-> "None", val |-> 0, lo |-> 0, hi |-> 0,
     inclusive |-> FALSE, overflow |-> FALSE, calls |-> <<>>]

\* i is in the range r = [lo, hi, inclusive].
Contains(r, i) ==
    /\ r.lo <= i
    /\ IF r.inclusive THEN i <= r.hi ELSE i < r.hi

\* ------------------------------------------- PdfSignatures (signatures.rs)

\* What a collection operation hands back: its value fields and the native
\* calls issued so far.
Ret(kind, err, val, log) == [kind |-> kind, err |-> err, val |-> val, log |-> log]

\* len(): one FPDF_GetSignatureCount call, its result narrowed to u16.
len_twice(nat, log) ==
    [val |-> AsU16(FPDF_GetSignatureCount(nat)),
     log |-> log \o <<"FPDF_GetSignatureCount", "FPDF_GetSignatureCount">>]
len(nat, log) ==
    [val |-> AsU16(FPDF_GetSignatureCount(nat)),
     log |-> Append(log, "FPDF_GetSignatureCount")]

\* is_empty(): len() == 0.
is_empty(nat, log) ==
    LET l == len(nat, log) IN [val |-> (l.val = 0), log |-> l.log]

\* as_range(): 0..len().
as_range(nat, log) ==
    LET l == len(nat, log) IN
    [lo |-> 0, hi |-> l.val, inclusive |-> FALSE, log |-> l.log]

\* `a - b` on u16: the build either checks the overflow (a panic) or wraps.
SubU16(a, b) == [val |-> AsU16(a - b), overflow |-> (a - b < 0)]

\* `a + b` on u16, likewise.
AddU16(a, b) == [val |-> AsU16(a + b), overflow |-> (a + b >= U16Modulus)]

\* The bounds check of get(): `index >= self.len()`.
OutOfBoundsOffByOne(index, n) == index > n
OutOfBounds(index, n) == index >= n

\* The classification of a null handle: the last error if there is one,
\* else PdfiumInternalError::Unknown.
ClassifyAlwaysUnknown(e) == "Unknown"
ClassifyLastError(e) == IF e # "None" THEN e ELSE "Unknown"

\* get(index).
get_recount(nat, index, log) ==
    LET l == len(nat, log) IN
    IF OutOfBounds(index, l.val)
    THEN Ret("Err", "SignatureIndexOutOfBounds", NULL, l.log)
    ELSE LET handle == FPDF_GetSignatureObject(nat, AsCInt(index))
             log2 == Append(l.log, "FPDF_GetSignatureObject")
         IN  IF handle = NULL
             THEN LET l2 == len(nat, log2)
                      error == get_pdfium_last_error(nat)
                      log3 == Append(l2.log, "get_pdfium_last_error")
                  IN  Ret("Err", ClassifyLastError(error), NULL, log3)
             ELSE Ret("Ok", "None", handle, log2)
get(nat, index, log) ==
    LET l == len(nat, log) IN
    IF OutOfBounds(index, l.val)
    THEN Ret("Err", "SignatureIndexOutOfBounds", NULL, l.log)
    ELSE LET handle == FPDF_GetSignatureObject(nat, AsCInt(index))
             log2 == Append(l.log, "FPDF_GetSignatureObject")
         IN  IF handle = NULL
             THEN LET error == get_pdfium_last_error(nat)
                      log3 == Append(log2, "get_pdfium_last_error")
                  IN  Ret("Err", ClassifyLastError(error), NULL, log3)
             ELSE Ret("Ok", "None", handle, log2)

\* The native facts at the instant of an operation on index i.
Observed(op, i) ==
    [NoRes EXCEPT !.op = op, !.index = i, !.count = count, !.count2 = count,
                  !.len = len(Native, <<>>).val, !.nativeErr = lastError,
                  !.handle = FPDF_GetSignatureObject(Native, i)]

\* ------------------------------------------------------------------ actions

Init ==
    /\ count \in CountValues
    /\ nullAt \in {{}} \cup {{k} : k \in 0 .. MaxCount - 1}
    /\ lastError \in LastErrors
    /\ next_index = 0
    /\ pc = "idle"
    /\ res = NoRes

CallLen ==
    /\ pc = "idle"
    /\ LET l == len(Native, <<>>) IN
       res' = [Observed("len", 0) EXCEPT !.kind = "Value", !.val = l.val, !.calls = l.log]
    /\ UNCHANGED <<count, nullAt, lastError, next_index, pc>>

CallIsEmpty ==
    /\ pc = "idle"
    /\ LET e == is_empty(Native, <<>>) IN
       res' = [Observed("is_empty", 0) EXCEPT !.kind = "Value",
                  !.val = IF e.val THEN 1 ELSE 0, !.calls = e.log]
    /\ UNCHANGED <<count, nullAt, lastError, next_index, pc>>

CallAsRange ==
    /\ pc = "idle"
    /\ LET r == as_range(Native, <<>>) IN
       res' = [Observed("as_range", 0) EXCEPT !.kind = "Range", !.lo = r.lo,
                  !.hi = r.hi, !.inclusive = r.inclusive, !.calls = r.log]
    /\ UNCHANGED <<count, nullAt, lastError, next_index, pc>>

CallGet(index) ==
    /\ pc = "idle"
    /\ LET g == get(Native, index, <<>>) IN
       res' = [Observed("get", index) EXCEPT !.kind = g.kind, !.err = g.err,
                  !.val = g.val, !.calls = g.log]
    /\ UNCHANGED <<count, nullAt, lastError, next_index, pc>>

\* as_range_inclusive(), up to the return of is_empty(): an empty collection
\* returns 0..=0, any other goes on to `self.len() - 1`.
AriIsEmpty ==
    /\ pc = "idle"
    /\ LET e == is_empty(Native, <<>>) IN
       IF e.val
       THEN /\ res' = [Observed("as_range_inclusive", 0) EXCEPT !.kind = "Range",
                          !.lo = 0, !.hi = 0, !.inclusive = TRUE, !.calls = e.log]
            /\ pc' = "idle"
       ELSE /\ res' = [Observed("as_range_inclusive", 0) EXCEPT !.kind = "running",
                          !.calls = e.log]
            /\ pc' = "sub"
    /\ UNCHANGED <<count, nullAt, lastError, next_index>>

\* as_range_inclusive(), the else branch: 0..=(self.len() - 1), on the count
\* the native layer reports now.
AriSub ==
    /\ pc = "sub"
    /\ LET l == len(Native, res.calls)
           d == SubU16(l.val, 1)
       IN  \E checked \in BOOLEAN :
             res' = IF d.overflow /\ checked
                    THEN [res EXCEPT !.kind = "Panic", !.count2 = count,
                             !.overflow = TRUE, !.calls = l.log]
                    ELSE [res EXCEPT !.kind = "Range", !.lo = 0, !.hi = d.val,
                             !.inclusive = TRUE, !.count2 = count,
                             !.overflow = d.overflow, !.calls = l.log]
    /\ pc' = "idle"
    /\ UNCHANGED <<count, nullAt, lastError, next_index>>

\* ----------------------------------------------------- PdfSignaturesIterator

\* iter(): PdfSignaturesIterator::new, next_index: 0.
Iter ==
    /\ pc = "idle"
    /\ next_index' = 0
    /\ res' = [Observed("iter", 0) EXCEPT !.kind = "Value"]
    /\ UNCHANGED <<count, nullAt, lastError, pc>>

\* next(): get(next_index), next_index += 1, next.ok().
IterNext ==
    /\ pc = "idle"
    /\ LET g == get(Native, next_index, <<>>)
           s == AddU16(next_index, 1)
       IN  \E checked \in BOOLEAN :
             IF s.overflow /\ checked
             THEN /\ res' = [Observed("next", next_index) EXCEPT !.kind = "Panic",
                                !.overflow = TRUE, !.calls = g.log]
                  /\ UNCHANGED next_index
             ELSE /\ res' = [Observed("next", next_index) EXCEPT
                                !.kind = IF g.kind = "Ok" THEN "Some" ELSE "None",
                                !.val = g.val, !.overflow = s.overflow,
                                !.calls = g.log]
                  /\ next_index' = s.val
    /\ UNCHANGED <<count, nullAt, lastError, pc>>

\* ------------------------- PdfPageLinkAnnotation (page_annotation_link.rs)

\* is_true(): the native boolean convention.
is_true(b) == b # 0

\* link(): a null link handle is PdfiumLibraryInternalError(Unknown).
link(handle, log) ==
    LET log2 == Append(log, "FPDFAnnot_GetLink") IN
    IF handle = NULL THEN Ret("Err", "Unknown", NULL, log2)
    ELSE Ret("Ok", "None", handle, log2)

\* set_link(uri): FPDFAnnot_SetURI's boolean.
set_link(result, log) ==
    LET log2 == Append(log, "FPDFAnnot_SetURI") IN
    IF is_true(result) THEN Ret("Ok", "None", 0, log2)
    ELSE Ret("Err", "Unknown", 0, log2)

\* set_dest(page, x, y, z): FPDFAnnot_SetDest's boolean.
set_dest(result, log) ==
    LET log2 == Append(log, "FPDFAnnot_SetDest") IN
    IF is_true(result) THEN Ret("Ok", "None", 0, log2)
    ELSE Ret("Err", "Unknown", 0, log2)

\* The native layer answers FPDFAnnot_GetLink with a link handle or null.
CallLink ==
    /\ pc = "idle"
    /\ \E handle \in LinkHandles :
         LET r == link(handle, <<>>) IN
         res' = [Observed("link", 0) EXCEPT !.handle = handle,
                    !.nativeOk = (handle # NULL), !.kind = r.kind, !.err = r.err,
                    !.val = r.val, !.calls = r.log]
    /\ UNCHANGED <<count, nullAt, lastError, next_index, pc>>

\* The native layer answers FPDFAnnot_SetURI with an FPDF_BOOL.
CallSetLink ==
    /\ pc = "idle"
    /\ \E result \in {0, 1} :
         LET r == set_link(result, <<>>) IN
         res' = [Observed("set_link", 0) EXCEPT !.nativeOk = (result # 0),
                    !.kind = r.kind, !.err = r.err, !.calls = r.log]
    /\ UNCHANGED <<count, nullAt, lastError, next_index, pc>>

\* The native layer answers FPDFAnnot_SetDest with an FPDF_BOOL.
CallSetDest ==
    /\ pc = "idle"
    /\ \E result \in {0, 1} :
         LET r == set_dest(result, <<>>) IN
         res' = [Observed("set_dest", 0) EXCEPT !.nativeOk = (result # 0),
                    !.kind = r.kind, !.err = r.err, !.calls = r.log]
    /\ UNCHANGED <<count, nullAt, lastError, next_index, pc>>

\* ------------------------------------------------- the native side, out of band

\* The native side grows or shrinks the collection (also while
\* as_range_inclusive is between its two count queries).
NativeMutate ==
    /\ \E c \in CountValues : c # count /\ count' = c
    /\ UNCHANGED <<nullAt, lastError, next_index, pc, res>>

\* Some native call sets or clears the process-wide last error.
NativeSetLastError ==
    /\ \E e \in LastErrors : e # lastError /\ lastError' = e
    /\ UNCHANGED <<count, nullAt, next_index, pc, res>>

\* ----------------------------------------------------------- specifications

\* The collection and the link annotation, against a native side that changes.
Next ==
    \/ CallLen
    \/ CallIsEmpty
    \/ CallAsRange
    \/ \E index \in Indices : CallGet(index)
    \/ AriIsEmpty
    \/ AriSub
    \/ CallLink
    \/ CallSetLink
    \/ CallSetDest
    \/ NativeMutate
    \/ NativeSetLastError

Spec == Init /\ [][Next]_vars

\* One iterator over a collection the native side leaves alone: 0..MaxCount
\* elements, at most one of which fails to fetch.
InitIter ==
    /\ count \in 0 .. MaxCount
    /\ nullAt \in {{}} \cup {{k} : k \in 0 .. count - 1}
    /\ lastError = "None"
    /\ next_index = 0
    /\ pc = "idle"
    /\ res = NoRes

NextIter ==
    \/ Iter
    \/ IterNext

SpecIter == InitIter /\ [][NextIter]_vars

\* ------------------------------------------------------------------- claims

\* The native calls an operation issued, as a set.
Issued == {res.calls[j] : j \in 1 .. Len(res.calls)}

\* What the last-error signal e classifies as: the cause it reports, and
\* Unknown only when it reports none.
Reported(e) == IF e = "None" THEN "Unknown" ELSE e

\* C1: get(i) with i >= len() returns SignatureIndexOutOfBounds (not an
\* element, not a library-internal error, not a panic) and does not issue
\* FPDF_GetSignatureObject; with a reported count of 3, get(0), get(1) and
\* get(2) reach the native fetch and get(3) is out of bounds.
T_C1 ==
    res.op = "get" =>
        /\ res.index >= res.len =>
              /\ res.kind = "Err"
              /\ res.err = "SignatureIndexOutOfBounds"
              /\ "FPDF_GetSignatureObject" \notin Issued
        /\ res.count = 3 =>
              /\ res.index \in 0 .. 2 => "FPDF_GetSignatureObject" \in Issued
              /\ res.index = 3 => res.err = "SignatureIndexOutOfBounds"

\* C1's case: with a reported count of 3, get(3) has returned the
\* out-of-bounds error.
W_C1 ==
    /\ res.op = "get"
    /\ res.count = 3
    /\ res.index = 3
    /\ res.err = "SignatureIndexOutOfBounds"

\* C2, as stated: an out-of-bounds get issues no native call at all, every
\* entry point included.
CE_C2 ==
    (res.op = "get" /\ res.err = "SignatureIndexOutOfBounds") =>
        Len(res.calls) = 0

\* C2, amended: an out-of-bounds get issues exactly one native call, the
\* count query of its bounds check, and nothing else.
T_C2 ==
    (res.op = "get" /\ res.err = "SignatureIndexOutOfBounds") =>
        res.calls = <<"FPDF_GetSignatureCount">>

\* C2's case: an out-of-bounds get has returned, having made one native call.
W_C2 ==
    /\ res.op = "get"
    /\ res.index >= res.len
    /\ res.err = "SignatureIndexOutOfBounds"
    /\ Len(res.calls) = 1

\* C3: for an in-bounds index, a null handle from the native fetch gives
\* PdfiumLibraryInternalError(c) for the reported cause c and
\* PdfiumLibraryInternalError(Unknown) when none is reported, never the
\* out-of-bounds error or an element; a non-null handle gives Ok with an
\* element wrapping exactly that handle.
T_C3 ==
    (res.op = "get" /\ res.index < res.len) =>
        IF res.handle = NULL
        THEN /\ res.kind = "Err"
             /\ res.err = Reported(res.nativeErr)
             /\ res.err # "SignatureIndexOutOfBounds"
        ELSE /\ res.kind = "Ok"
             /\ res.val = res.handle

\* C3's case: an in-bounds get met a null handle while the native last error
\* was FormatError, and returned that cause.
W_C3 ==
    /\ res.op = "get"
    /\ res.index < res.len
    /\ res.handle = NULL
    /\ res.nativeErr = "FormatError"
    /\ res.err = "FormatError"

\* C4, as stated: when get fails at index k < N and succeeds elsewhere, the
\* iterator never yields an element of index greater than k, however many
\* more times next() is called.
CE_C4 ==
    \A k \in nullAt :
        (k < count /\ res.op = "next" /\ res.kind = "Some") => res.index < k

\* C5, as stated: link, set_link and set_dest return Ok exactly when the
\* native call reports success, classify a failure through the last error
\* (the reported cause, Unknown only if none), and issue one native call.
CE_C5 ==
    res.op \in {"link", "set_link", "set_dest"} =>
        /\ (res.kind = "Ok") <=> res.nativeOk
        /\ ~res.nativeOk => (res.kind = "Err" /\ res.err = Reported(res.nativeErr))
        /\ Len(res.calls) <= 1

\* C6, as stated: for a native count of 0, as_range_inclusive returns a
\* range that contains no index; for a count n > 0 (that the native side
\* leaves alone) it returns 0..=n-1.
CE_C6 ==
    (res.op = "as_range_inclusive" /\ res.kind = "Range") =>
        /\ res.count = 0 => \A i \in Indices : ~Contains(res, i)
        /\ (res.count \in 1 .. U16Modulus - 1 /\ res.count2 = res.count) =>
              (res.lo = 0 /\ res.hi = res.count - 1 /\ res.inclusive)

\* C7, as stated: as_range_inclusive never computes 0 - 1 on the u16 length
\* and always returns a range, also when the native side shrinks the
\* collection to 0 between its two count queries.
CE_C7 ==
    res.op = "as_range_inclusive" => (~res.overflow /\ res.kind # "Panic")

\* C8, as stated: len() issues one native count query and returns the count
\* the native layer reports, for every count a C int can hold.
CE_C8 ==
    res.op = "len" =>
        /\ res.calls = <<"FPDF_GetSignatureCount">>
        /\ res.val = res.count

\* C9, as stated: every next() advances the cursor by exactly one and none
\* panics or overflows the 16-bit cursor, up to and past 65536 calls.
CE_C9 ==
    res.op = "next" =>
        /\ res.kind # "Panic"
        /\ ~res.overflow
        /\ next_index = res.index + 1

\* C10: in get, a null handle from FPDF_GetSignatureObject is followed at
\* once by the last-error query, no other native call between them; on a
\* non-null handle and on an out-of-bounds index the last-error query is not
\* issued.
T_C10 ==
    res.op = "get" =>
        /\ \A j \in 1 .. Len(res.calls) :
              (res.calls[j] = "FPDF_GetSignatureObject" /\ res.handle = NULL) =>
                  /\ j < Len(res.calls)
                  /\ res.calls[j + 1] = "get_pdfium_last_error"
        /\ (res.index >= res.len \/ res.handle # NULL) =>
              "get_pdfium_last_error" \notin Issued

\* C10's case: a get whose fetch returned null has queried the last error.
W_C10 ==
    /\ res.op = "get"
    /\ res.handle = NULL
    /\ res.calls = <<"FPDF_GetSignatureCount", "FPDF_GetSignatureObject",
                     "get_pdfium_last_error">>

====
